---- MODULE Spec2Model ----
(***************************************************************************)
(* ProcForest: a terminal process tree.  main.py's ProcessTreeApp calls    *)
(* load_tree on mount and on every sort selection; load_tree calls         *)
(* list_process (scan of the OS process table, ancestor walk per process,  *)
(* memoised recursive memory aggregation) and then builds the displayed    *)
(* forest with add_children_recursive.                                     *)
(*                                                                         *)
(* Memory fractions are integers in units of 1/10000 of a percent          *)
(* (1000000 = 100%); round(x, 2) is Round2, which rounds to a multiple of  *)
(* 100 of these units (a hundredth of a percent).                          *)
(* Python recursion is an explicit stack; a recursion deeper than          *)
(* RecursionLimit raises RecursionError as the interpreter does.           *)
(***************************************************************************)
EXTENDS Integers, Sequences, FiniteSets, TLC

\* Number of pids the OS process table can hold during one scan.
MaxPid == 3

Pids == 1..MaxPid
\* A parent pid of 0 names a process outside the table.
PPids == 0..MaxPid
\* Raw answers of proc.memory_percent(), in 1/10000 of a percent.
RawMemValues == {0, 499987}
\* The interpreter's recursion limit: deeper than any acyclic chain of Pids.
RecursionLimit == MaxPid + 1

SortKeys == {"pid", "alphabet", "owner", "memory"}

VARIABLES
    pc,            \* position of the running handler
    sort_by,       \* self.sort_by
    scanPos,       \* next pid yielded by psutil.process_iter
    walkDepth,     \* depth of the get_parent_tree recursion in progress
    dropped,       \* pids whose attribute read failed in this scan
    processes,     \* list_process: processes (pid -> record)
    porder,        \* insertion order of the keys of processes
    children_map,  \* list_process: children_map (ppid -> list of pids)
    aggIdx,        \* position of "for pid in processes" (line 110)
    stack,         \* frames of compute_memory_with_children
    memo,          \* memo dict
    visited,       \* visited set of the current top-level call
    runs,          \* per pid: times the summing body was entered
    writes,        \* per pid: times memo[pid] was assigned
    ret,           \* last value returned by compute_memory_with_children
    roots,         \* sorted root pids still to be added by load_tree
    bstack,        \* frames of add_children_recursive
    tree,          \* nodes added to the Tree widget, in order
    error,         \* exception that escaped the handler ("none" if none)
    raisedIn       \* function that raised it

vars == <<pc, sort_by, scanPos, walkDepth, dropped, processes,
          porder, children_map, aggIdx, stack, memo, visited, runs, writes,
          ret, roots, bstack, tree, error, raisedIn>>

scanVars == <<scanPos, walkDepth, dropped>>
dataVars == <<processes, porder, children_map>>
aggVars == <<aggIdx, stack, memo, visited, runs, writes, ret>>
viewVars == <<roots, bstack, tree>>
errVars == <<error, raisedIn>>

EmptyMap == [x \in {} |-> 0]
NoRet == [pid |-> 0, via |-> "none", value |-> 0]
ZeroCount == [p \in Pids |-> 0]

\* round(x, 2) on a non-negative amount: nearest hundredth of a percent.
Round2(x) == ((x + 50) \div 100) * 100

\* Sort rank of proc["name"].lower(): a fixed name per pid, in reverse pid order.
NameOf(p) == MaxPid - p
\* Sort rank of the normalised owner: two owners, so siblings tie.
OwnerOf(p) == p % 2

HasTotal(rec) == "memory_total" \in DOMAIN rec

\* dict.get(pid, []) on children_map (process_parser.py line 48).
ChildrenOf(pid) == IF pid \in DOMAIN children_map THEN children_map[pid] ELSE <<>>

\* Raising out of the handler: the app stops.
RaiseError(exc, where) ==
    /\ pc' = "crashed"
    /\ error' = exc
    /\ raisedIn' = where

----
(***************************************************************************)
(* text_sparkline and format_proc                                          *)
(***************************************************************************)
bars == <<"b0", "b1", "b2", "b3", "b4", "b5", "b6", "b7">>
maximum == Len(bars) - 1

\* int(memory_percent * maximum / 100)
SparkIndex(v) == (v * maximum) \div 1000000

\* bars[index]: IndexError when index is past the end.
text_sparkline(v) ==
    IF SparkIndex(v) + 1 \in DOMAIN bars THEN bars[SparkIndex(v) + 1] ELSE "IndexError"

\* format_proc reads proc['memory_total'] and calls text_sparkline on it.
format_proc(proc) == text_sparkline(proc.memory_total)

----
(***************************************************************************)
(* sorter / sorted (main.py 45-58 and 68-81)                               *)
(***************************************************************************)
sorter(pid) ==
    LET proc == processes[pid] IN
    CASE sort_by = "alphabet" -> proc.name
      [] sort_by = "owner" -> proc.username
      [] sort_by = "memory" -> (IF HasTotal(proc) THEN proc.memory_total ELSE 0)
      [] OTHER -> proc.pid

reverse == sort_by = "memory"

Before(a, b) == IF reverse THEN sorter(a) > sorter(b) ELSE sorter(a) < sorter(b)

RECURSIVE InsertSorted(_, _)
InsertSorted(x, s) ==
    IF s = <<>> THEN <<x>>
    ELSE IF Before(x, Head(s)) THEN <<x>> \o s
    ELSE <<Head(s)>> \o InsertSorted(x, Tail(s))

\* sorted(seq, key=sorter, reverse=reverse): stable.
RECURSIVE sorted(_)
sorted(s) ==
    IF s = <<>> THEN <<>>
    ELSE InsertSorted(s[Len(s)], sorted(SubSeq(s, 1, Len(s) - 1)))

\* root_pids with every pid taken as a root.
root_pids_all == porder

\* root_pids (main.py 41-43), in dict order.
root_pids ==
    SelectSeq(porder, LAMBDA p : processes[p].ppid \notin DOMAIN processes)

----
(***************************************************************************)
(* Handlers                                                                *)
(***************************************************************************)
Init ==
    /\ pc = "init"
    /\ sort_by = "pid"
    /\ scanPos = 1
    /\ walkDepth = 0
    /\ dropped = {}
    /\ processes = EmptyMap
    /\ porder = <<>>
    /\ children_map = EmptyMap
    /\ aggIdx = 1
    /\ stack = <<>>
    /\ memo = EmptyMap
    /\ visited = {}
    /\ runs = ZeroCount
    /\ writes = ZeroCount
    /\ ret = NoRet
    /\ roots = <<>>
    /\ bstack = <<>>
    /\ tree = <<>>
    /\ error = "none"
    /\ raisedIn = "none"

\* load_tree up to the scan loop: tree.clear(), then list_process() starts
\* with fresh processes, children_map (main.py 38-40, process_parser.py 83-84).
load_tree ==
    /\ pc' = "scan"
    /\ tree' = <<>>
    /\ roots' = <<>>
    /\ bstack' = <<>>
    /\ processes' = EmptyMap
    /\ porder' = <<>>
    /\ children_map' = EmptyMap
    /\ scanPos' = 1
    /\ walkDepth' = 0
    /\ dropped' = {}
    /\ aggIdx' = 1
    /\ stack' = <<>>
    /\ memo' = EmptyMap
    /\ visited' = {}
    /\ runs' = ZeroCount
    /\ writes' = ZeroCount
    /\ ret' = NoRet
    /\ UNCHANGED errVars

on_mount ==
    /\ pc = "init"
    /\ UNCHANGED sort_by
    /\ load_tree

on_option_list_option_selected ==
    /\ pc = "idle"
    /\ \E k \in SortKeys : sort_by' = k
    /\ load_tree

----
(***************************************************************************)
(* list_process: the scan loop (process_parser.py 86-107) and              *)
(* get_parent_tree (4-33)                                                  *)
(***************************************************************************)

\* ScanFail as it would be with the append of line 104 placed before the read
\* that fails: the dropped pid stays in a children list.
ScanFailPartial(p) ==
    /\ dropped' = dropped \cup {p}
    /\ scanPos' = scanPos + 1
    /\ \E pp \in PPids :
          children_map' = [k \in DOMAIN children_map \cup {pp} |->
                              IF k = pp THEN Append(ChildrenOf(k), p)
                              ELSE children_map[k]]
    /\ UNCHANGED <<pc, walkDepth, processes, porder, errVars>>

\* proc.memory_percent() raises NoSuchProcess or AccessDenied at line 100: the
\* except clause continues with the next process; nothing has been stored.
ScanFail(p) ==
    /\ dropped' = dropped \cup {p}
    /\ scanPos' = scanPos + 1
    /\ UNCHANGED <<pc, walkDepth, dataVars, errVars>>

\* One iteration of the for loop up to the call of get_parent_tree (lines
\* 86-101): the read of line 100 fails, or the reads succeed.  What they
\* returned is used by nothing before the record is stored, so the values are
\* drawn there (ScanStore).
ScanRead ==
    /\ pc = "scan"
    /\ scanPos <= MaxPid
    /\ \/ ScanFail(scanPos)
       \/ /\ pc' = "walk"
          /\ walkDepth' = 0
          /\ UNCHANGED <<scanPos, dropped, dataVars, errVars>>
    /\ UNCHANGED <<sort_by, aggVars, viewVars>>

\* get_parent_tree: proc.parent() answered with a parent whose name() reads:
\* the function calls itself on the parent (line 29).  Nothing bounds the
\* depth but the interpreter.
get_parent_tree ==
    /\ pc = "walk"
    /\ IF walkDepth >= RecursionLimit
       THEN /\ RaiseError("RecursionError", "get_parent_tree")
            /\ UNCHANGED walkDepth
       ELSE /\ walkDepth' = walkDepth + 1
            /\ UNCHANGED <<pc, errVars>>
    /\ UNCHANGED <<sort_by, scanPos, dropped, dataVars, aggVars, viewVars>>

\* The record of lines 95-102, of the process pid with the parent pid and the
\* raw memory fraction that were read.
Record(pid, pp, m) ==
    [pid |-> pid, ppid |-> pp, name |-> NameOf(pid), username |-> OwnerOf(pid),
     memory |-> Round2(m)]

\* get_parent_tree ends (parent() is None, or the parent is gone or denied:
\* lines 24-25, 32-33) and the recursion unwinds; the record is stored and the
\* pid appended to its parent's list (lines 95-104), for any parent pid and
\* any memory fraction read.  The "ppids" chain is read by no other operation
\* and is not kept.
ScanStore ==
    /\ pc = "walk"
    /\ \E pp \in PPids, m \in RawMemValues :
          /\ processes' = [q \in DOMAIN processes \cup {scanPos} |->
                              IF q = scanPos THEN Record(scanPos, pp, m)
                              ELSE processes[q]]
          /\ children_map' = [k \in DOMAIN children_map \cup {pp} |->
                                 IF k = pp THEN Append(ChildrenOf(k), scanPos)
                                 ELSE children_map[k]]
    /\ porder' = IF scanPos \in DOMAIN processes THEN porder ELSE Append(porder, scanPos)
    /\ pc' = "scan"
    /\ scanPos' = scanPos + 1
    /\ walkDepth' = 0
    /\ UNCHANGED <<sort_by, dropped, aggVars, viewVars, errVars>>

\* The scan loop is exhausted: memo = {} and the aggregation loop starts (109-110).
ScanDone ==
    /\ pc = "scan"
    /\ scanPos > MaxPid
    /\ pc' = "aggregate"
    /\ UNCHANGED <<sort_by, scanVars, dataVars, aggVars, viewVars, errVars>>

----
(***************************************************************************)
(* compute_memory_with_children (process_parser.py 36-57) and the loop     *)
(* that calls it (109-113)                                                 *)
(***************************************************************************)

\* Lookup without the on-stack check of lines 42-43.
LookupNoVisited(pid) == IF pid \in DOMAIN memo THEN "memo" ELSE "compute"

\* Lookup without the memo check of lines 39-40.
LookupNoMemo(pid) == IF pid \in visited THEN "visited" ELSE "compute"

\* Lines 39-43: what a call does with its pid.
Lookup(pid) ==
    IF pid \in DOMAIN memo THEN "memo"
    ELSE IF pid \in visited THEN "visited"
    ELSE "compute"

\* Returned with a memo hit returning 0 like a visited hit.
ReturnedZero(kind, pid) == 0

\* Lines 40 and 43: the value returned without running the body.
Returned(kind, pid) == IF kind = "memo" THEN memo[pid] ELSE 0

\* InitialTotal with the pid's own memory left out.
InitialTotalZero(pid) == 0

\* Line 47: total starts as the pid's own memory.
InitialTotal(pid) == processes[pid].memory

\* Lines 45-47: the body is entered.
NewFrame(pid) == [pid |-> pid, i |-> 1, total |-> InitialTotal(pid)]

SetTotal(pid, v) ==
    [processes EXCEPT ![pid] = [memory_total |-> v] @@ processes[pid]]

\* Line 111: list_process calls compute_memory_with_children(pid, ..., memo)
\* with a fresh visited set.
AggCall ==
    /\ pc = "aggregate"
    /\ stack = <<>>
    /\ aggIdx <= Len(porder)
    /\ LET pid == porder[aggIdx]
       IN IF Lookup(pid) = "compute"
          THEN /\ stack' = <<NewFrame(pid)>>
               /\ visited' = {pid}
               /\ runs' = [runs EXCEPT ![pid] = @ + 1]
               /\ UNCHANGED <<aggIdx, memo, writes, ret, processes>>
          ELSE /\ ret' = [pid |-> pid, via |-> Lookup(pid), value |-> Returned(Lookup(pid), pid)]
               /\ processes' = SetTotal(pid, Returned(Lookup(pid), pid))
               /\ aggIdx' = aggIdx + 1
               /\ visited' = {}
               /\ UNCHANGED <<stack, memo, runs, writes>>
    /\ UNCHANGED <<pc, sort_by, scanVars, porder, children_map, viewVars, errVars>>

\* Lines 48-52: the next child of the frame on top of the stack.
AggChild ==
    /\ pc = "aggregate"
    /\ stack /= <<>>
    /\ LET top == stack[Len(stack)]
           kids == ChildrenOf(top.pid)
       IN /\ top.i <= Len(kids)
          /\ LET child == kids[top.i] IN
             IF child \notin DOMAIN processes
             THEN /\ stack' = [stack EXCEPT ![Len(stack)].i = @ + 1]
                  /\ UNCHANGED <<pc, visited, runs, ret, errVars>>
             ELSE IF Lookup(child) = "compute"
             THEN IF Len(stack) >= RecursionLimit
                  THEN /\ RaiseError("RecursionError", "compute_memory_with_children")
                       /\ UNCHANGED <<stack, visited, runs, ret>>
                  ELSE /\ stack' = Append(stack, NewFrame(child))
                       /\ visited' = visited \cup {child}
                       /\ runs' = [runs EXCEPT ![child] = @ + 1]
                       /\ UNCHANGED <<pc, ret, errVars>>
             ELSE /\ ret' = [pid |-> child, via |-> Lookup(child),
                             value |-> Returned(Lookup(child), child)]
                  /\ stack' = [stack EXCEPT ![Len(stack)] =
                                  [@ EXCEPT !.i = @ + 1,
                                            !.total = @ + Returned(Lookup(child), child)]]
                  /\ UNCHANGED <<pc, visited, runs, errVars>>
    /\ UNCHANGED <<sort_by, scanVars, dataVars, aggIdx, memo, writes, viewVars>>

\* Lines 54-57: the loop over the children is over; the pid leaves visited,
\* memo[pid] is written and returned, to the calling frame (line 50) or to
\* list_process (line 111).
AggReturn ==
    /\ pc = "aggregate"
    /\ stack /= <<>>
    /\ LET top == stack[Len(stack)]
           value == Round2(top.total)
           rest == SubSeq(stack, 1, Len(stack) - 1)
       IN /\ top.i > Len(ChildrenOf(top.pid))
          /\ visited' = visited \ {top.pid}
          /\ memo' = [q \in DOMAIN memo \cup {top.pid} |->
                         IF q = top.pid THEN value ELSE memo[q]]
          /\ writes' = [writes EXCEPT ![top.pid] = @ + 1]
          /\ ret' = [pid |-> top.pid, via |-> "computed", value |-> value]
          /\ IF rest = <<>>
             THEN /\ stack' = <<>>
                  /\ processes' = SetTotal(top.pid, value)
                  /\ aggIdx' = aggIdx + 1
             ELSE /\ stack' = [rest EXCEPT ![Len(rest)] =
                                  [@ EXCEPT !.i = @ + 1, !.total = @ + value]]
                  /\ UNCHANGED <<processes, aggIdx>>
    /\ UNCHANGED <<pc, sort_by, scanVars, porder, children_map, runs,
                   viewVars, errVars>>

\* list_process returns (line 115); load_tree computes and sorts root_pids
\* (main.py 41-58).
AggDone ==
    /\ pc = "aggregate"
    /\ stack = <<>>
    /\ aggIdx > Len(porder)
    /\ pc' = "build"
    /\ roots' = sorted(root_pids)
    /\ UNCHANGED <<sort_by, scanVars, dataVars, aggVars, bstack, tree, errVars>>

----
(***************************************************************************)
(* load_tree's loop over the roots (main.py 58-61) and                     *)
(* add_children_recursive (63-84)                                          *)
(***************************************************************************)

Node(pid, parent) ==
    [pid |-> pid, parent |-> parent, bar |-> format_proc(processes[pid])]

\* The frames a call add_children_recursive(node, pid, ...) leaves on the
\* stack: none when pid is not a key of children_map (lines 64-65), else one
\* holding the sorted children still to add (66, 81).
Called(frames, pid) ==
    IF pid \notin DOMAIN children_map THEN frames
    ELSE Append(frames, [pid |-> pid, todo |-> sorted(children_map[pid])])

\* The sort key function of line 69 reads processes[pid] for every child.
MissingKey(pid) ==
    /\ pid \in DOMAIN children_map
    /\ \E i \in DOMAIN children_map[pid] : children_map[pid][i] \notin DOMAIN processes

\* tree_node.add(self.format_proc(proc)) followed by the recursive call, for
\* the process pid below parent (0: the tree's root); frames are the
\* add_children_recursive calls in progress.
AddNode(pid, parent, frames) ==
    IF format_proc(processes[pid]) = "IndexError"
    THEN /\ RaiseError("IndexError", "text_sparkline")
         /\ UNCHANGED <<bstack, tree>>
    ELSE IF Len(frames) >= RecursionLimit
    THEN /\ tree' = Append(tree, Node(pid, parent))
         /\ RaiseError("RecursionError", "add_children_recursive")
         /\ UNCHANGED bstack
    ELSE IF MissingKey(pid)
    THEN /\ tree' = Append(tree, Node(pid, parent))
         /\ RaiseError("KeyError", "add_children_recursive")
         /\ UNCHANGED bstack
    ELSE /\ tree' = Append(tree, Node(pid, parent))
         /\ bstack' = Called(frames, pid)
         /\ UNCHANGED <<pc, errVars>>

\* main.py 58-61: the next root.
BuildRoot ==
    /\ pc = "build"
    /\ bstack = <<>>
    /\ roots /= <<>>
    /\ roots' = Tail(roots)
    /\ AddNode(Head(roots), 0, <<>>)
    /\ UNCHANGED <<sort_by, scanVars, dataVars, aggVars>>

\* main.py 81-84: the next child of the frame on top of the stack.
BuildChild ==
    /\ pc = "build"
    /\ bstack /= <<>>
    /\ LET top == bstack[Len(bstack)] IN
          /\ top.todo /= <<>>
          /\ AddNode(Head(top.todo), top.pid,
                     [bstack EXCEPT ![Len(bstack)].todo = Tail(@)])
    /\ UNCHANGED <<sort_by, scanVars, dataVars, aggVars, roots>>

\* add_children_recursive returns: its loop is over.
BuildReturn ==
    /\ pc = "build"
    /\ bstack /= <<>>
    /\ bstack[Len(bstack)].todo = <<>>
    /\ bstack' = SubSeq(bstack, 1, Len(bstack) - 1)
    /\ UNCHANGED <<pc, sort_by, scanVars, dataVars, aggVars, roots, tree, errVars>>

\* load_tree returns; the app waits for the next event.
BuildDone ==
    /\ pc = "build"
    /\ bstack = <<>>
    /\ roots = <<>>
    /\ pc' = "idle"
    /\ UNCHANGED <<sort_by, scanVars, dataVars, aggVars, viewVars, errVars>>

----
Next ==
    \/ on_mount
    \/ on_option_list_option_selected
    \/ ScanRead
    \/ get_parent_tree
    \/ ScanStore
    \/ ScanDone
    \/ AggCall
    \/ AggChild
    \/ AggReturn
    \/ AggDone
    \/ BuildRoot
    \/ BuildChild
    \/ BuildReturn
    \/ BuildDone

Spec == Init /\ [][Next]_vars

\* The steps of a running handler; the user's next selection is not one.
HandlerStep ==
    \/ ScanRead
    \/ get_parent_tree
    \/ ScanStore
    \/ ScanDone
    \/ AggCall
    \/ AggChild
    \/ AggReturn
    \/ AggDone
    \/ BuildRoot
    \/ BuildChild
    \/ BuildReturn
    \/ BuildDone

\* A handler, once started, runs on: the app is single-threaded and nothing
\* pre-empts or suspends the running handler.  No selection is ever forced.
FairSpec == Spec /\ WF_vars(HandlerStep)

----
(***************************************************************************)
(* Properties                                                              *)
(***************************************************************************)

\* The k-th ancestor of p along the recorded ppid (0 once it leaves processes).
RECURSIVE AncestorAt(_, _)
AncestorAt(p, k) ==
    IF k = 0 THEN p
    ELSE LET a == AncestorAt(p, k - 1) IN
         IF a \in DOMAIN processes THEN processes[a].ppid ELSE 0

\* p is its own ancestor: it lies on a parent cycle.
OnCycle(p) == \E k \in 1..MaxPid : AncestorAt(p, k) = p

RECURSIVE SumChildTotals(_)
SumChildTotals(kids) ==
    IF kids = <<>> THEN 0
    ELSE (IF Head(kids) \in DOMAIN processes
          THEN processes[Head(kids)].memory_total ELSE 0)
         + SumChildTotals(Tail(kids))

\* list_process has returned: every record has its memory_total.
AggregationDone ==
    \/ pc \in {"build", "idle"}
    \/ pc = "crashed" /\ raisedIn \in {"text_sparkline", "add_children_recursive"}

TotalIsSum(pid) ==
    processes[pid].memory_total =
        processes[pid].memory + SumChildTotals(ChildrenOf(pid))

Occurrences(seq, x) == Cardinality({i \in DOMAIN seq : seq[i] = x})

TreeCount(pid) == Cardinality({i \in DOMAIN tree : tree[i].pid = pid})

StackPids(frames) == {frames[i].pid : i \in DOMAIN frames}

\* C1 as stated: after aggregation, for every pid of every snapshot (cyclic
\* ones included), memory_total is the pid's own memory plus the sum of the
\* memory_total of its children that are keys of processes.
C1_Original ==
    AggregationDone => \A pid \in DOMAIN processes : TotalIsSum(pid)

\* C1 amended: after aggregation, for every pid that does not lie on a parent
\* cycle, memory_total is the pid's own memory plus the sum of the
\* memory_total of its children that are keys of processes.
C1_Amended ==
    AggregationDone =>
        \A pid \in DOMAIN processes : ~OnCycle(pid) => TotalIsSum(pid)

\* C1 witness: aggregation is done on a snapshot holding a parent cycle and,
\* off the cycle, a pid with a child whose total is positive.
C1_Witness ==
    /\ AggregationDone
    /\ \E p \in DOMAIN processes : OnCycle(p)
    /\ \E p \in DOMAIN processes :
          /\ ~OnCycle(p)
          /\ ChildrenOf(p) /= <<>>
          /\ processes[p].memory_total > processes[p].memory

\* The safety half of C2: no call of compute_memory_with_children raises, the
\* frames on the stack are of distinct pids of processes (the recursion is
\* never deeper than the snapshot is large), and a pid met while it is on the
\* stack is returned as 0.
C2_Safe ==
    /\ raisedIn /= "compute_memory_with_children"
    /\ StackPids(stack) \subseteq DOMAIN processes
    /\ Cardinality(StackPids(stack)) = Len(stack)
    /\ StackPids(stack) = visited
    /\ ret.via = "visited" => ret.value = 0 /\ ret.pid \in visited

\* C2: for every processes/children_map pair, self-parents and parent cycles
\* included, the aggregation pass terminates: every call made by list_process
\* returns without raising, and a pid revisited while on the recursion stack
\* contributes 0.
C2_Terminates ==
    /\ []C2_Safe
    /\ (pc = "aggregate") ~> (pc = "build")

\* C2 witness: the pass has completed on a snapshot that holds both a pid
\* that is its own parent and a parent cycle of two pids.
C2_Witness ==
    /\ pc = "build"
    /\ \E p \in DOMAIN processes : processes[p].ppid = p
    /\ \E p \in DOMAIN processes : OnCycle(p) /\ processes[p].ppid /= p

\* C3: once a record has its memory_total, memory_total >= memory, for cyclic
\* and acyclic snapshots alike (own memory fractions are non-negative).
C3_TotalAtLeastOwn ==
    \A pid \in DOMAIN processes :
        HasTotal(processes[pid]) =>
            processes[pid].memory_total >= processes[pid].memory

\* C3 witness: aggregation is done, a pid on a parent cycle has a positive own
\* memory, and some pid's total exceeds its own memory.
C3_Witness ==
    /\ AggregationDone
    /\ \E p \in DOMAIN processes : OnCycle(p) /\ processes[p].memory > 0
    /\ \E p \in DOMAIN processes :
          processes[p].memory_total > processes[p].memory

\* C4 as stated: selecting a sort key rebuilds the forest from the data
\* already aggregated: the handler leaves processes (every memory_total
\* included) and children_map as they are, and starts no scan of the OS
\* process table.
C4_Claim ==
    [][on_option_list_option_selected =>
          /\ UNCHANGED <<processes, children_map>>
          /\ pc' /= "scan"]_vars

\* C5: a process whose attribute read fails is dropped whole (no key in
\* processes, no element of any children_map list), every other process
\* iterated so far has its full record and is once in the list of its ppid,
\* and the failure does not escape list_process.
C5_DroppedExactly ==
    /\ error \notin {"NoSuchProcess", "AccessDenied"}
    /\ raisedIn /= "list_process"
    /\ \A p \in dropped :
          /\ p \notin DOMAIN processes
          /\ \A k \in DOMAIN children_map : Occurrences(children_map[k], p) = 0
    /\ \A p \in (1..(scanPos - 1)) \ dropped :
          /\ p \in DOMAIN processes
          /\ {"pid", "ppid", "name", "username", "memory"} \subseteq DOMAIN processes[p]
          /\ processes[p].pid = p
          /\ Occurrences(ChildrenOf(processes[p].ppid), p) = 1
    /\ DOMAIN processes = (1..(scanPos - 1)) \ dropped

\* C5 witness: the scan is over, a process was dropped, and a process that
\* names the dropped one as its parent kept its record.
C5_Witness ==
    /\ pc = "aggregate"
    /\ dropped /= {}
    /\ \E p \in DOMAIN processes : processes[p].ppid \in dropped

\* C6 as stated: get_parent_tree terminates for every answer sequence of the
\* parent query, a parent cycle included; it never raises.
C6_Claim == raisedIn /= "get_parent_tree"

\* The index text_sparkline is specified to use: floor(v * 7 / 100) clamped
\* into [0, 7].
ClampedIndex(v) ==
    IF SparkIndex(v) > 7 THEN 7 ELSE IF SparkIndex(v) < 0 THEN 0 ELSE SparkIndex(v)

\* C7 as stated: for every memory_total format_proc passes to it,
\* text_sparkline returns the glyph at the clamped index and never fails.
C7_Claim ==
    /\ error /= "IndexError"
    /\ \A i \in DOMAIN tree :
          tree[i].bar = bars[ClampedIndex(processes[tree[i].pid].memory_total) + 1]

\* C8: in one aggregation pass the summing body runs at most once per pid and
\* memo[pid] is written at most once (so never overwritten), a memo hit
\* returns memo[pid], and when the pass is over each pid of processes had its
\* body run exactly once, its memo entry written exactly once, and its
\* memory_total equal to memo[pid].
C8_ComputedOnce ==
    /\ \A pid \in Pids :
          /\ runs[pid] <= 1
          /\ writes[pid] <= 1
          /\ writes[pid] = 1 <=> pid \in DOMAIN memo
          /\ writes[pid] = 1 => runs[pid] = 1
    /\ ret.via = "memo" => ret.pid \in DOMAIN memo /\ ret.value = memo[ret.pid]
    /\ \A pid \in DOMAIN processes :
          HasTotal(processes[pid]) =>
              pid \in DOMAIN memo /\ processes[pid].memory_total = memo[pid]
    /\ AggregationDone =>
          \A pid \in DOMAIN processes :
              /\ runs[pid] = 1
              /\ writes[pid] = 1
              /\ HasTotal(processes[pid])

\* C8 witness: the pass is over on a snapshot of all pids, the last request
\* was answered from the memo, and some total was summed from a child.
C8_Witness ==
    /\ pc = "build"
    /\ DOMAIN processes = Pids
    /\ ret.via = "memo"
    /\ \E p \in DOMAIN processes : processes[p].memory_total > processes[p].memory

\* C9 as stated: once load_tree has returned, every pid of processes is
\* exactly one node of the forest, a root or a child of its ppid's node.
C9_Claim ==
    pc = "idle" =>
        \A pid \in DOMAIN processes :
            /\ TreeCount(pid) = 1
            /\ \A i \in DOMAIN tree :
                  tree[i].pid = pid =>
                      tree[i].parent =
                          (IF processes[pid].ppid \in DOMAIN processes
                           THEN processes[pid].ppid ELSE 0)

\* The safety half of C10: building the forest raises neither KeyError nor
\* RecursionError, each pid is in at most one children_map list and once, the
\* frames of add_children_recursive are of distinct pids, and no pid is added
\* to the tree twice.
C10_Safe ==
    /\ raisedIn /= "add_children_recursive"
    /\ \A p \in Pids :
          Cardinality({k \in DOMAIN children_map : Occurrences(children_map[k], p) > 0}) <= 1
    /\ \A k \in DOMAIN children_map : \A i \in DOMAIN children_map[k] :
          /\ children_map[k][i] \in DOMAIN processes
          /\ Occurrences(children_map[k], children_map[k][i]) = 1
    /\ Cardinality(StackPids(bstack)) = Len(bstack)
    /\ \A p \in Pids : TreeCount(p) <= 1
    /\ \A i \in DOMAIN bstack : ~OnCycle(bstack[i].pid)

\* C10: for every (processes, children_map) list_process returns, parent
\* cycles included, load_tree with add_children_recursive terminates and
\* looks up no pid missing from processes.
C10_Terminates ==
    /\ []C10_Safe
    /\ (pc = "build") ~> (pc \in {"idle", "crashed"})

\* C10 witness: load_tree has returned with a forest that holds a root and a
\* child of it, on a snapshot that also holds a parent cycle.
C10_Witness ==
    /\ pc = "idle"
    /\ \E p \in DOMAIN processes : OnCycle(p)
    /\ \E i \in DOMAIN tree : tree[i].parent /= 0

====
